---- MODULE Spec2Model ----
(***************************************************************************)
(* Model of the sparc backend specification pass of libfirm:               *)
(*   scripts/registers.py   register classes and the limit bitset          *)
(*   scripts/beops.py       constructors and register requirements         *)
(*   ir/be/sparc/spec.py    the declarations and the finalization          *)
(* irops.prepare_nodes and jinjautil.export are not part of the sources    *)
(* at hand; they are modelled from the written specification.              *)
(***************************************************************************)
EXTENDS Integers, Sequences, FiniteSets, TLC

VARIABLES pc, exported, register_classes, reqs, ops, node_name,
          nodes, abstract_nodes, err, runs, last

vars == <<pc, exported, register_classes, reqs, ops, node_name,
          nodes, abstract_nodes, err, runs, last>>

\* ---------------------------------------------------------------- bounds
MaxRegs == 40
MaxClasses == 2
MaxReqs == 2
MaxOps == 4
MaxRuns == 2

\* width of one word of the limit bitset (the literal 32 of registers.py)
WordBits == 32

\* ------------------------------------------------------- registers.py
\* reg(name): a Register object with its name; its identity is its position
\* in the class that owns it
reg(name) == [name |-> name]

\* map(reg, names)
MapReg(names) == [k \in 1..Len(names) |-> reg(names[k])]

\* ir/be/sparc/spec.py, class gp
SparcGpRegisters ==
  <<
    "g0", "g1", "g2", "g3", "g4", "g5", "g6", "g7",
    "o0", "o1", "o2", "o3", "o4", "o5", "sp", "o7",
    "l0", "l1", "l2", "l3", "l4", "l5", "l6", "l7",
    "i0", "i1", "i2", "i3", "i4", "i5", "fp", "i7"
  >>

\* names of the registers of a generated class of any size
RegNames ==
  <<
    "r0", "r1", "r2", "r3", "r4", "r5", "r6", "r7",
    "r8", "r9", "r10", "r11", "r12", "r13", "r14", "r15",
    "r16", "r17", "r18", "r19", "r20", "r21", "r22", "r23",
    "r24", "r25", "r26", "r27", "r28", "r29", "r30", "r31",
    "r32", "r33", "r34", "r35", "r36", "r37", "r38", "r39",
    "r40", "r41", "r42", "r43", "r44", "r45", "r46", "r47"
  >>

\* str.upper() on the names that occur
UpperTab ==
  [
    g0 |-> "G0", g1 |-> "G1", g2 |-> "G2", g3 |-> "G3",
    g4 |-> "G4", g5 |-> "G5", g6 |-> "G6", g7 |-> "G7",
    o0 |-> "O0", o1 |-> "O1", o2 |-> "O2", o3 |-> "O3",
    o4 |-> "O4", o5 |-> "O5", sp |-> "SP", o7 |-> "O7",
    l0 |-> "L0", l1 |-> "L1", l2 |-> "L2", l3 |-> "L3",
    l4 |-> "L4", l5 |-> "L5", l6 |-> "L6", l7 |-> "L7",
    i0 |-> "I0", i1 |-> "I1", i2 |-> "I2", i3 |-> "I3",
    i4 |-> "I4", i5 |-> "I5", fp |-> "FP", i7 |-> "I7",
    r0 |-> "R0", r1 |-> "R1", r2 |-> "R2", r3 |-> "R3",
    r4 |-> "R4", r5 |-> "R5", r6 |-> "R6", r7 |-> "R7",
    r8 |-> "R8", r9 |-> "R9", r10 |-> "R10", r11 |-> "R11",
    r12 |-> "R12", r13 |-> "R13", r14 |-> "R14", r15 |-> "R15",
    r16 |-> "R16", r17 |-> "R17", r18 |-> "R18", r19 |-> "R19",
    r20 |-> "R20", r21 |-> "R21", r22 |-> "R22", r23 |-> "R23",
    r24 |-> "R24", r25 |-> "R25", r26 |-> "R26", r27 |-> "R27",
    r28 |-> "R28", r29 |-> "R29", r30 |-> "R30", r31 |-> "R31",
    r32 |-> "R32", r33 |-> "R33", r34 |-> "R34", r35 |-> "R35",
    r36 |-> "R36", r37 |-> "R37", r38 |-> "R38", r39 |-> "R39",
    r40 |-> "R40", r41 |-> "R41", r42 |-> "R42", r43 |-> "R43",
    r44 |-> "R44", r45 |-> "R45", r46 |-> "R46", r47 |-> "R47",
    gp |-> "GP", big |-> "BIG", flags |-> "FLAGS", fpflags |-> "FPFLAGS",
    a |-> "A", b |-> "B"
  ]

upper(s) == UpperTab[s]

\* prepare_class + the class statement: the class object
prepare_class(name, registers) == [name |-> name, registers |-> registers]

Gp == prepare_class("gp", MapReg(SparcGpRegisters))

GenClass(n) == prepare_class("big", MapReg(SubSeq(RegNames, 1, n)))

NoCall == [op |-> "none"]

\* one word of the literal: "0", "(1 << REG_C_R)" or "(1 << (REG_C_R % 32))"
ZeroWord == [sym |-> <<>>, mod32 |-> FALSE]
ShiftWord(cls, r, m) ==
  [sym |-> <<"REG", upper(cls.name), upper(cls.registers[r].name)>>, mod32 |-> m]

\* make_limit_bitset(cls, register); register is the r-th register of cls
make_limit_bitset_nomod(cls, r) ==
  LET n_regs    == Len(cls.registers)
      n_buckets == (n_regs + 31) \div 32
      index     == r - 1
  IN [k \in 1..n_buckets |->
        LET b == k - 1
        IN IF index >= b * 32 /\ index < (b + 1) * 32
             THEN ShiftWord(cls, r, FALSE)
             ELSE ZeroWord]

make_limit_bitset(cls, r) ==
  LET n_regs    == Len(cls.registers)
      n_buckets == (n_regs + 31) \div 32
      index     == r - 1
  IN [k \in 1..n_buckets |->
        LET b == k - 1
        IN IF index >= b * 32 /\ index < (b + 1) * 32
             THEN IF b > 0 THEN ShiftWord(cls, r, TRUE)
                           ELSE ShiftWord(cls, r, FALSE)
             ELSE ZeroWord]

\* the bits of a word of the literal when its symbolic constant is read as i
Bits(w, i) ==
  IF w.sym = <<>> THEN {}
  ELSE IF w.mod32 THEN {i % WordBits}
  ELSE {i}

\* ------------------------------------------------ the limit bitset alone
InitBitset ==
  /\ pc = "bitset"
  /\ exported = {"register_classes", "make_limit_bitset"}
  /\ register_classes \in {<<Gp>>} \cup {<<GenClass(n)>> : n \in 1..MaxRegs}
  /\ reqs = <<>>
  /\ ops = <<>>
  /\ node_name = <<>>
  /\ nodes = <<>>
  /\ abstract_nodes = <<>>
  /\ err = "none"
  /\ runs = 0
  /\ last = NoCall

CallMakeLimitBitset ==
  /\ pc = "bitset"
  /\ \E c \in 1..Len(register_classes) :
       \E r \in 1..Len(register_classes[c].registers) :
         last' = [op |-> "make_limit_bitset", cls |-> c, reg |-> r,
                  words |-> make_limit_bitset(register_classes[c], r)]
  /\ UNCHANGED <<pc, exported, register_classes, reqs, ops, node_name,
                 nodes, abstract_nodes, err, runs>>

NextBitset == CallMakeLimitBitset

SpecBitset == InitBitset /\ [][NextBitset]_vars

\* C1: the literal of make_limit_bitset for the register at 0-based index i
\* of a class of N registers has ceil(N/32) words; word floor(i/32) is the
\* only non-zero one and holds exactly bit i mod 32 when the symbolic
\* constant is read as i; for sparc's gp and sp it is one word with bit 14.
C1_LimitBitset ==
  last.op = "make_limit_bitset" =>
    LET cls == register_classes[last.cls]
        N   == Len(cls.registers)
        i   == last.reg - 1
        L   == Len(last.words)
    IN /\ WordBits * L >= N
       /\ WordBits * (L - 1) < N
       /\ \A k \in 1..L :
            Bits(last.words[k], i) =
              IF k - 1 = i \div WordBits THEN {i % WordBits} ELSE {}
       /\ (cls.name = "gp" /\ cls.registers[last.reg].name = "sp") =>
            /\ L = 1
            /\ Bits(last.words[1], i) = {14}
            /\ last.words[1].sym = <<"REG", "GP", "SP">>

\* a register beyond the first word of a 40-register class
C1_Witness ==
  /\ last.op = "make_limit_bitset"
  /\ Len(register_classes[last.cls].registers) = 40
  /\ last.reg - 1 >= 32
  /\ Len(last.words) = 2
  /\ Bits(last.words[2], last.reg - 1) = {(last.reg - 1) - 32}


\* ---------------------------------------------------- registers.py, beops.py
Min(S) == CHOOSE x \in S : \A y \in S : x <= y

\* regclass(cls): prepare_class and append to the registry; nothing is checked
regclass(registry, name, registers) ==
  Append(registry, prepare_class(name, registers))

\* the exception of beops.py line 24 ("No register named %s in regclass %s")
UnknownRegisterError == "Exception: No register named"

RegNamesOf(cls) == {cls.registers[r].name : r \in 1..Len(cls.registers)}

\* the loop of singlereq: the first register of the class with that name,
\* 0 for None
FindRegister(cls, regname) ==
  LET hits == {r \in 1..Len(cls.registers) : cls.registers[r].name = regname}
  IN IF hits = {} THEN 0 ELSE Min(hits)

\* singlereq(regclass, regname) on the heap of requirement objects; c is the
\* class object (its place in the registry)
singlereq(heap, registry, c, regname) ==
  LET r == FindRegister(registry[c], regname)
  IN IF r = 0
       THEN [ok |-> FALSE, exc |-> UnknownRegisterError, heap |-> heap, ret |-> 0]
       ELSE [ok |-> TRUE, exc |-> "none",
             heap |-> Append(heap, [kind |-> "singlereq", cls |-> c, reg |-> r]),
             ret |-> Len(heap) + 1]

\* a producestackreq that retags the requirement already made for that
\* register instead of a new one
producestackreq_shared(heap, registry, c, regname) ==
  LET r    == FindRegister(registry[c], regname)
      same == {i \in 1..Len(heap) : heap[i].cls = c /\ heap[i].reg = r}
  IN IF r = 0
       THEN [ok |-> FALSE, exc |-> UnknownRegisterError, heap |-> heap, ret |-> 0]
       ELSE IF same # {}
         THEN [ok |-> TRUE, exc |-> "none",
               heap |-> [heap EXCEPT ![Min(same)].kind = "producestackreq"],
               ret |-> Min(same)]
         ELSE [ok |-> TRUE, exc |-> "none",
               heap |-> Append(heap, [kind |-> "producestackreq", cls |-> c, reg |-> r]),
               ret |-> Len(heap) + 1]

\* producestackreq(regclass, regname)
producestackreq(heap, registry, c, regname) ==
  LET res == singlereq(heap, registry, c, regname)
  IN IF ~res.ok
       THEN res
       ELSE [res EXCEPT !.heap[res.ret].kind = "producestackreq"]

\* ------------------------------- declarations of classes and requirements
ClassNames == {"gp", "flags"}
ReqRegNames == {"sp", "g0"}
RegLists == {<<a>> : a \in ReqRegNames} \cup {<<a, b>> : a, b \in ReqRegNames}

InitReq ==
  /\ pc = "req"
  /\ exported = {"register_classes", "make_limit_bitset"}
  /\ register_classes = <<>>
  /\ reqs = <<>>
  /\ ops = <<>>
  /\ node_name = <<>>
  /\ nodes = <<>>
  /\ abstract_nodes = <<>>
  /\ err = "none"
  /\ runs = 0
  /\ last = NoCall

\* @regclass class <name>: registers = map(reg, <names>)
DeclareClass ==
  /\ pc = "req"
  /\ Len(register_classes) < MaxClasses
  /\ \E name \in ClassNames, names \in RegLists :
       /\ register_classes' = regclass(register_classes, name, MapReg(names))
       /\ last' = [op |-> "regclass", cls |-> Len(register_classes) + 1,
                   name |-> name, ok |-> TRUE, ret |-> Len(register_classes) + 1]
  /\ UNCHANGED <<pc, exported, reqs, ops, node_name, nodes, abstract_nodes,
                 err, runs>>

\* a call of singlereq or producestackreq at declaration time; the exception
\* ends the pass
ReqCall(fn, res, c, regname) ==
  /\ res.ok => Len(reqs) < MaxReqs
  /\ reqs' = res.heap
  /\ last' = [op |-> fn, cls |-> c, name |-> regname, ok |-> res.ok,
              ret |-> res.ret]
  /\ err' = res.exc
  /\ pc' = IF res.ok THEN pc ELSE "failed"

CallSingleReq ==
  /\ pc = "req"
  /\ \E c \in 1..Len(register_classes), regname \in ReqRegNames :
       ReqCall("singlereq", singlereq(reqs, register_classes, c, regname),
               c, regname)
  /\ UNCHANGED <<exported, register_classes, ops, node_name, nodes,
                 abstract_nodes, runs>>

CallProduceStackReq ==
  /\ pc = "req"
  /\ \E c \in 1..Len(register_classes), regname \in ReqRegNames :
       ReqCall("producestackreq",
               producestackreq(reqs, register_classes, c, regname), c, regname)
  /\ UNCHANGED <<exported, register_classes, ops, node_name, nodes,
                 abstract_nodes, runs>>

NextReq == DeclareClass \/ CallSingleReq \/ CallProduceStackReq

SpecReq == InitReq /\ [][NextReq]_vars

\* C2: singlereq(class, name) succeeds exactly when name names a register of
\* class; for every register r of class the requirement returned for r's
\* name is single-fixed, bound to class, and its register is r itself; for
\* any other name it raises the unknown-register error and returns nothing.
C2_SingleReqReflexive ==
  last.op = "singlereq" =>
    LET cls == register_classes[last.cls]
    IN /\ last.ok <=> last.name \in RegNamesOf(cls)
       /\ \A r \in 1..Len(cls.registers) :
            cls.registers[r].name = last.name =>
              /\ last.ok
              /\ reqs[last.ret] =
                   [kind |-> "singlereq", cls |-> last.cls, reg |-> r]
       /\ ~last.ok => /\ err = UnknownRegisterError
                      /\ pc = "failed"
                      /\ last.ret = 0

\* C3: class names are unique in register_classes and register names are
\* unique within each class (a duplicate declaration having been refused).
C3_NamesUnique ==
  /\ \A c, d \in 1..Len(register_classes) :
       register_classes[c].name = register_classes[d].name => c = d
  /\ \A c \in 1..Len(register_classes) :
       \A r, q \in 1..Len(register_classes[c].registers) :
         register_classes[c].registers[r].name =
           register_classes[c].registers[q].name => r = q

\* C10: producestackreq(class, name) succeeds exactly when name names a
\* register of class (as singlereq does); on success it returns a newly
\* created requirement of that class and of the register singlereq finds,
\* tagged produce-stack, and every requirement made before keeps its kind,
\* class and register.
C10_ProduceStackFrame ==
  [][(last' # last /\ last'.op \in {"singlereq", "producestackreq"}) =>
       LET cls == register_classes[last'.cls]
       IN /\ last'.ok <=> last'.name \in RegNamesOf(cls)
          /\ ~last'.ok => reqs' = reqs /\ err' = UnknownRegisterError
          /\ last'.ok =>
               /\ last'.ret = Len(reqs) + 1
               /\ Len(reqs') = Len(reqs) + 1
               /\ \A i \in 1..Len(reqs) : reqs'[i] = reqs[i]
               /\ reqs'[last'.ret] =
                    [kind |-> last'.op, cls |-> last'.cls,
                     reg |-> Min({r \in 1..Len(cls.registers) :
                                    cls.registers[r].name = last'.name})]
    ]_vars

\* AddSP: a single-fixed requirement for sp, then a produce-stack one
C10_Witness ==
  /\ last.op = "producestackreq"
  /\ last.ok
  /\ last.ret = 2
  /\ reqs[2].kind = "producestackreq"
  /\ reqs[1] = [reqs[2] EXCEPT !.kind = "singlereq"]
  /\ register_classes[reqs[2].cls].registers[reqs[2].reg].name = "sp"

\* ------------------------------------------------------------ beops.py
\* constructor(name, attr, custominit, in_reqs, ins)
constructor(name, attr, custominit, in_reqs, ins) ==
  [name |-> name, attr |-> attr, custominit |-> custominit,
   in_reqs |-> in_reqs, ins |-> ins]

\* ------------------------------------------- ir/be/sparc/spec.py, classes
\* the value of a class attribute: not set by this class statement, the
\* variadic marker "...", a list, a tuple (a right-hand side with a trailing
\* comma) or a string
Unset == [kind |-> "unset", items |-> <<>>]
Variadic == [kind |-> "variadic", items |-> <<>>]
List(items) == [kind |-> "list", items |-> items]
Tuple(items) == [kind |-> "tuple", items |-> items]
Str(s) == [kind |-> "str", items |-> <<s>>]

FieldNames ==
  {"ins", "outs", "in_reqs", "out_reqs", "outs_reqs", "constructors",
   "attr_struct", "flags", "beflags"}

NoFields == [f \in FieldNames |-> Unset]

\* the attributes a class statement sets
Fields(set) == [f \in FieldNames |-> IF f \in DOMAIN set THEN set[f] ELSE Unset]

\* a class statement: its name, its base, whether it carries @op, the
\* attributes of its body and the requirement calls its body makes
ClassStmt(name, base, decorated, set, body) ==
  [name |-> name, base |-> base, decorated |-> decorated,
   fields |-> Fields(set), body |-> body]

binop_constructors ==
  << constructor("imm",
       "ir_entity *immediate_entity, int32_t immediate_value",
       "sparc_set_attr_imm(res, immediate_entity, immediate_value);",
       <<"gp">>, <<"left">>),
     constructor("reg", "", "", <<"gp", "gp">>, <<"left", "right">>) >>

SparcBase ==
  ClassStmt("SparcBase", "object", FALSE,
            [attr_struct |-> Str("sparc_attr_t")], <<>>)

Start ==
  ClassStmt("Start", "SparcBase", TRUE,
            [beflags |-> List(<<"schedule_first">>), outs_reqs |-> Variadic,
             ins |-> List(<<>>)], <<>>)

JumpBase ==
  ClassStmt("JumpBase", "SparcBase", FALSE,
            [flags |-> List(<<"cfopcode">>), out_reqs |-> List(<<"noreq">>)],
            <<>>)

BranchBase ==
  ClassStmt("BranchBase", "JumpBase", FALSE,
            [flags |-> List(<<"cfopcode", "forking">>),
             beflags |-> List(<<"has_delay_slot">>),
             attr_struct |-> Str("sparc_jmp_cond_attr_t"),
             ins |-> List(<<"flags">>),
             outs |-> List(<<"false", "true">>),
             out_reqs |-> List(<<"noreq", "noreq">>)], <<>>)

Ba ==
  ClassStmt("Ba", "JumpBase", TRUE, [beflags |-> List(<<"simple_jump">>)], <<>>)

SwitchJmp ==
  ClassStmt("SwitchJmp", "BranchBase", TRUE,
            [in_reqs |-> List(<<"gp">>), out_reqs |-> Variadic,
             attr_struct |-> Str("sparc_switch_jmp_attr_t"),
             constructors |-> List(<<
               constructor("",
                 "const ir_switch_table *table, ir_entity *jump_table",
                 "", <<>>, <<>>) >>)], <<>>)

Return ==
  ClassStmt("Return", "JumpBase", TRUE,
            [beflags |-> List(<<"has_delay_slot">>), in_reqs |-> Variadic,
             constructors |-> List(<<
               constructor("imm", "ir_entity *entity, int32_t offset",
                 "sparc_set_attr_imm(res, entity, offset);", <<>>, <<>>),
               constructor("reg", "", "", <<>>, <<>>) >>)], <<>>)

Call ==
  ClassStmt("Call", "JumpBase", TRUE,
            [beflags |-> List(<<"has_delay_slot">>), in_reqs |-> Variadic,
             out_reqs |-> Variadic,
             outs |-> List(<<"M", "stack", "first_result">>),
             attr_struct |-> Str("sparc_call_attr_t"),
             constructors |-> List(<<
               constructor("imm",
                 "ir_type *call_type, ir_entity *entity, int32_t offset, bool aggregate_return",
                 "sparc_set_attr_imm(res, entity, offset); ...", <<>>, <<>>),
               constructor("reg", "ir_type *call_type, bool aggregate_return",
                 "if (aggregate_return) ...", <<>>, <<>>) >>)], <<>>)

Bicc ==
  ClassStmt("Bicc", "BranchBase", TRUE, [in_reqs |-> List(<<"flags">>)], <<>>)

BinopBase ==
  ClassStmt("BinopBase", "SparcBase", FALSE,
            [beflags |-> List(<<"rematerializable">>),
             out_reqs |-> List(<<"gp">>),
             constructors |-> List(binop_constructors)], <<>>)

Add ==
  ClassStmt("Add", "BinopBase", TRUE, NoFields, <<>>)

\* every right-hand side of AddSP ends in a comma: each attribute is a tuple
\* of one element, the list
AddSP ==
  ClassStmt("AddSP", "SparcBase", TRUE,
            [in_reqs |-> Tuple(<<"[singlereq(gp, sp), gp]">>),
             out_reqs |-> Tuple(<<"[producestackreq(gp, sp)]">>),
             ins |-> Tuple(<<"[stack, size]">>),
             outs |-> Tuple(<<"[stack]">>)],
            << [fn |-> "singlereq", cls |-> "gp", reg |-> "sp"],
               [fn |-> "producestackreq", cls |-> "gp", reg |-> "sp"] >>)

\* declarations that are not in spec.py: a constructor with two
\* requirements for one named input, and a requirement for a register that
\* gp does not have
TwoReqsOneInput ==
  ClassStmt("TwoReqsOneInput", "SparcBase", TRUE,
            [constructors |-> List(<<
               constructor("imm", "", "", <<"gp", "gp">>, <<"left">>) >>)],
            <<>>)

UnknownSp ==
  ClassStmt("UnknownSp", "SparcBase", TRUE,
            [in_reqs |-> List(<<"singlereq(gp, stack)">>),
             ins |-> List(<<"stack">>)],
            << [fn |-> "singlereq", cls |-> "gp", reg |-> "stack"] >>)

ClassStmts ==
  {SparcBase, Start, JumpBase, BranchBase, Ba, Return, Call, SwitchJmp, Bicc,
   BinopBase, Add, AddSP, TwoReqsOneInput, UnknownSp}

\* the class object a global name is bound to: the last one declared
Lookup(seq, name) ==
  LET hits == {i \in 1..Len(seq) : seq[i].name = name}
  IN IF hits = {} THEN 0 ELSE CHOOSE i \in hits : \A j \in hits : j <= i

\* attribute lookup of a class: the root-most class of the chain that sets it
RECURSIVE GetAttr_rootmost(_, _, _)
GetAttr_rootmost(decls, i, f) ==
  IF decls[i].base = 0 THEN decls[i].fields[f]
  ELSE LET up == GetAttr_rootmost(decls, decls[i].base, f)
       IN IF up.kind # "unset" THEN up ELSE decls[i].fields[f]

\* attribute lookup of a class (class X(Base): ...): the class itself, then
\* its base, then the base of that
RECURSIVE GetAttr(_, _, _)
GetAttr(decls, i, f) ==
  IF decls[i].fields[f].kind # "unset" THEN decls[i].fields[f]
  ELSE IF decls[i].base = 0 THEN Unset
  ELSE GetAttr(decls, decls[i].base, f)

\* the requirement calls of a class body, in order; stops at the exception
RECURSIVE EvalBody(_, _, _, _)
EvalBody(heap, registry, body, k) ==
  IF k > Len(body) THEN [ok |-> TRUE, exc |-> "none", heap |-> heap, ret |-> 0]
  ELSE LET c   == Lookup(registry, body[k].cls)
           res == IF body[k].fn = "singlereq"
                    THEN singlereq(heap, registry, c, body[k].reg)
                    ELSE producestackreq(heap, registry, c, body[k].reg)
       IN IF res.ok THEN EvalBody(res.heap, registry, body, k + 1) ELSE res

\* ------------------------------------------- irops.prepare_nodes (spec 4.3)
MalformedSpecError == "MalformedSpecError"

\* the root default: empty operand lists, empty flags, no constructors
RootDefault(f) == IF f = "attr_struct" \/ f = "outs_reqs" THEN Unset ELSE List(<<>>)

\* the final attribute set of a class
Final(decls, i) ==
  [f \in FieldNames |->
     LET v == GetAttr(decls, i, f)
     IN IF v.kind = "unset" THEN RootDefault(f) ELSE v]

\* rule (1) with the length check dropped
LengthsMatch_off(m, names, reqsf) == TRUE

\* rule (1): two fixed lists have the same length; the variadic marker is
\* exempt
LengthsMatch(m, names, reqsf) ==
  \/ m[names].kind = "variadic"
  \/ m[reqsf].kind = "variadic"
  \/ Len(m[names].items) = Len(m[reqsf].items)

\* rule (2) with the check dropped
ConstructorsMatch_off(m) == TRUE

\* rule (2): each constructor's own requirement list is as long as its own
\* list of named operands
ConstructorsMatch(m) ==
  \A k \in 1..Len(m.constructors.items) :
    Len(m.constructors.items[k].in_reqs) = Len(m.constructors.items[k].ins)

\* rule (3): the attribute-struct tag, if present, is a non-empty identifier
AttrStructOk(m) ==
  m.attr_struct.kind = "unset"
    \/ (m.attr_struct.kind = "str" /\ m.attr_struct.items[1] # "")

\* the field at fault of a merged specification, "none" if it is well formed
BadField(m) ==
  IF ~LengthsMatch(m, "outs", "out_reqs") THEN "out_reqs"
  ELSE IF ~LengthsMatch(m, "ins", "in_reqs") THEN "in_reqs"
  ELSE IF ~ConstructorsMatch(m) THEN "constructors"
  ELSE IF ~AttrStructOk(m) THEN "attr_struct"
  ELSE "none"

\* the classes of a set of indices, in declaration order
InOrder(S) ==
  [k \in 1..Cardinality(S) |->
     CHOOSE x \in S : Cardinality({y \in S : y < x}) = k - 1]

\* a prepare_nodes that gives a class its bare name only when it has none
prepare_nodes_keepname(decls, names) ==
  LET conc == InOrder({i \in 1..Len(decls) : decls[i].decorated})
      abst == InOrder({i \in 1..Len(decls) : ~decls[i].decorated})
      bad  == {k \in 1..Len(conc) : BadField(Final(decls, conc[k])) # "none"}
      rec(i) == [op |-> i, fields |-> Final(decls, i)]
  IN IF bad # {}
       THEN [ok |-> FALSE, exc |-> MalformedSpecError,
             node |-> conc[Min(bad)],
             field |-> BadField(Final(decls, conc[Min(bad)]))]
       ELSE [ok |-> TRUE, exc |-> "none",
             nodes |-> [k \in 1..Len(conc) |-> rec(conc[k])],
             abstract_nodes |-> [k \in 1..Len(abst) |-> rec(abst[k])],
             names |-> [i \in 1..Len(decls) |->
                          IF names[i] = <<>> THEN <<decls[i].name>>
                          ELSE names[i]]]

\* prepare_nodes(globals()): partitions the declared classes into concrete
\* (@op) and abstract ones in declaration order, merges and validates the
\* concrete ones and gives every class its bare name
prepare_nodes(decls, names) ==
  LET conc == InOrder({i \in 1..Len(decls) : decls[i].decorated})
      abst == InOrder({i \in 1..Len(decls) : ~decls[i].decorated})
      bad  == {k \in 1..Len(conc) : BadField(Final(decls, conc[k])) # "none"}
      rec(i) == [op |-> i, fields |-> Final(decls, i)]
  IN IF bad # {}
       THEN [ok |-> FALSE, exc |-> MalformedSpecError,
             node |-> conc[Min(bad)],
             field |-> BadField(Final(decls, conc[Min(bad)]))]
       ELSE [ok |-> TRUE, exc |-> "none",
             nodes |-> [k \in 1..Len(conc) |-> rec(conc[k])],
             abstract_nodes |-> [k \in 1..Len(abst) |-> rec(abst[k])],
             names |-> [i \in 1..Len(decls) |-> <<decls[i].name>>]]

\* jinjautil.export(thing, name)
export(tables, name) == tables \cup {name}

\* ------------------------------------------- the pass of ir/be/sparc/spec.py
arch == "sparc"

\* "sparc_" + node.name
Qualify(name) == <<"sparc_">> \o name

Flags == prepare_class("flags", MapReg(<<"flags">>))

RegClassStmts == {Gp, Flags}

Init ==
  /\ pc = "start"
  /\ exported = {}
  /\ register_classes = <<>>
  /\ reqs = <<>>
  /\ ops = <<>>
  /\ node_name = <<>>
  /\ nodes = <<>>
  /\ abstract_nodes = <<>>
  /\ err = "none"
  /\ runs = 0
  /\ last = NoCall

\* from registers import ...: the module body of registers.py
ImportRegisters ==
  /\ pc = "start"
  /\ register_classes' = <<>>
  /\ exported' = export(export(exported, "register_classes"),
                        "make_limit_bitset")
  /\ pc' = "arch"
  /\ UNCHANGED <<reqs, ops, node_name, nodes, abstract_nodes, err, runs, last>>

\* arch = "sparc"; export(arch, "arch")
ExportArch ==
  /\ pc = "arch"
  /\ exported' = export(exported, "arch")
  /\ pc' = "declare"
  /\ UNCHANGED <<register_classes, reqs, ops, node_name, nodes,
                 abstract_nodes, err, runs, last>>

\* @regclass class gp / class flags
RegClassStmt ==
  /\ pc = "declare"
  /\ Len(register_classes) < MaxClasses
  /\ \E cls \in RegClassStmts :
       register_classes' = regclass(register_classes, cls.name, cls.registers)
  /\ UNCHANGED <<pc, exported, reqs, ops, node_name, nodes, abstract_nodes,
                 err, runs, last>>

\* a class statement of a node or of a base of nodes; the requirement calls
\* of its body run first, and an exception there ends the pass
DeclareOp ==
  /\ pc = "declare"
  /\ Len(ops) < MaxOps
  /\ \E d \in ClassStmts :
       /\ Lookup(ops, d.name) = 0
       /\ d.base = "object" \/ Lookup(ops, d.base) # 0
       /\ \A k \in 1..Len(d.body) : Lookup(register_classes, d.body[k].cls) # 0
       /\ LET res == EvalBody(reqs, register_classes, d.body, 1)
          IN /\ reqs' = res.heap
             /\ err' = res.exc
             /\ IF res.ok
                  THEN /\ ops' = Append(ops,
                            [name |-> d.name,
                             base |-> IF d.base = "object" THEN 0
                                      ELSE Lookup(ops, d.base),
                             decorated |-> d.decorated,
                             fields |-> d.fields])
                       /\ node_name' = Append(node_name, <<>>)
                       /\ pc' = pc
                       /\ last' = [op |-> "class", name |-> d.name]
                  ELSE /\ pc' = "failed"
                       /\ last' = [op |-> "singlereq", name |-> d.name]
                       /\ UNCHANGED <<ops, node_name>>
  /\ UNCHANGED <<exported, register_classes, nodes, abstract_nodes, runs>>

\* a finalization that exports whatever prepare_nodes left behind
Finalize_export_anyway ==
  /\ pc \in {"declare", "finalized"}
  /\ runs < MaxRuns
  /\ LET res == prepare_nodes(ops, node_name)
     IN IF res.ok
          THEN /\ node_name' =
                    [i \in 1..Len(ops) |->
                       IF \E k \in 1..Len(res.nodes) : res.nodes[k].op = i
                         THEN Qualify(res.names[i]) ELSE res.names[i]]
               /\ nodes' = res.nodes
               /\ abstract_nodes' = res.abstract_nodes
               /\ exported' = export(export(exported, "nodes"), "abstract_nodes")
               /\ pc' = "finalized"
               /\ runs' = runs + 1
               /\ last' = [op |-> "finalize"]
               /\ UNCHANGED err
          ELSE /\ pc' = "failed"
               /\ err' = res.exc
               /\ last' = [op |-> "prepare_nodes", node |-> res.node,
                           field |-> res.field]
               /\ exported' = export(export(exported, "nodes"), "abstract_nodes")
               /\ UNCHANGED <<node_name, nodes, abstract_nodes, runs>>
  /\ UNCHANGED <<register_classes, reqs, ops>>

\* (nodes, abstract_nodes) = prepare_nodes(globals()); the loop that puts
\* "sparc_" before the name of each node; export of both lists
Finalize ==
  /\ pc \in {"declare", "finalized"}
  /\ runs < MaxRuns
  /\ LET res == prepare_nodes(ops, node_name)
     IN IF res.ok
          THEN /\ node_name' =
                    [i \in 1..Len(ops) |->
                       IF \E k \in 1..Len(res.nodes) : res.nodes[k].op = i
                         THEN Qualify(res.names[i]) ELSE res.names[i]]
               /\ nodes' = res.nodes
               /\ abstract_nodes' = res.abstract_nodes
               /\ exported' = export(export(exported, "nodes"), "abstract_nodes")
               /\ pc' = "finalized"
               /\ runs' = runs + 1
               /\ last' = [op |-> "finalize"]
               /\ UNCHANGED err
          ELSE /\ pc' = "failed"
               /\ err' = res.exc
               /\ last' = [op |-> "prepare_nodes", node |-> res.node,
                           field |-> res.field]
               /\ UNCHANGED <<exported, node_name, nodes, abstract_nodes, runs>>
  /\ UNCHANGED <<register_classes, reqs, ops>>

Next == ImportRegisters \/ ExportArch \/ RegClassStmt \/ DeclareOp \/ Finalize

Spec == Init /\ [][Next]_vars

\* ------------------------------------------------------------ properties
Max(S) == CHOOSE x \in S : \A y \in S : y <= x

\* a class and the bases above it
RECURSIVE Chain(_)
Chain(i) == {i} \cup (IF ops[i].base = 0 THEN {} ELSE Chain(ops[i].base))

Published == {nodes[k] : k \in 1..Len(nodes)}
PublishedAbstract == {abstract_nodes[k] : k \in 1..Len(abstract_nodes)}

IsFixed(v) == v.kind \in {"list", "tuple"}

\* C4: after finalization the name of every opcode of the published
\* concrete list and of the published abstract list is "sparc_" followed by
\* its bare declared name.
C4_AllNamesQualified ==
  pc = "finalized" =>
    \A n \in Published \cup PublishedAbstract :
      node_name[n.op] = <<"sparc_", ops[n.op].name>>

Tables == {"arch", "register_classes", "nodes", "abstract_nodes"}

C9_PureOverride ==
  /\ \A i \in 1..Len(ops) : \A f \in FieldNames :
       LET setters == {j \in Chain(i) : ops[j].fields[f].kind # "unset"}
       IN IF setters = {}
            THEN GetAttr(ops, i, f).kind = "unset"
            ELSE GetAttr(ops, i, f) = ops[Max(setters)].fields[f]
  /\ pc = "finalized" =>
       \A n \in Published \cup PublishedAbstract :
         /\ \A f \in FieldNames :
              LET setters ==
                    {j \in Chain(n.op) : ops[j].fields[f].kind # "unset"}
              IN IF setters = {}
                   THEN n.fields[f] = RootDefault(f)
                   ELSE n.fields[f] = ops[Max(setters)].fields[f]
         /\ ops[n.op].name = "SwitchJmp" =>
              /\ n.fields.outs = List(<<"false", "true">>)
              /\ n.fields.out_reqs = Variadic
              /\ n.fields.flags = List(<<"cfopcode", "forking">>)

C9_Witness ==
  /\ pc = "finalized"
  /\ \E n \in Published :
       /\ ops[n.op].name = "SwitchJmp"
       /\ ops[ops[n.op].base].name = "BranchBase"
       /\ ops[ops[ops[n.op].base].base].name = "JumpBase"
       /\ n.fields.outs = List(<<"false", "true">>)
       /\ n.fields.out_reqs = Variadic

====
